---- MODULE Spec2Model ----
(***************************************************************************)
(* A state-machine model of the My-Writer-AI front end: the App shell, the *)
(* MainEditor (selection tracker and content splicer), the generation      *)
(* client (aiService), the Brainstorm dialog, the story-bible sidebar and  *)
(* the Creative Branching dialog.                                          *)
(*                                                                         *)
(* Strings the user or the backend supplies are sequences of one-character *)
(* strings; fixed messages of the code are TLA+ strings.  The editable     *)
(* surface is the serialisation of the contenteditable element's children  *)
(* as a sequence of tokens (tags and characters), which is what innerHTML  *)
(* reads and writes.                                                       *)
(***************************************************************************)
EXTENDS Integers, Sequences, FiniteSets, TLC

(***************************************************************************)
(* Bounds of the model.                                                    *)
(***************************************************************************)
MaxGestures == 5
MaxRequests == 2

(***************************************************************************)
(* JavaScript strings.                                                     *)
(***************************************************************************)
IsWhitespace(c) == c \in {" ", "\n"}

RECURSIVE TrimLeft(_)
TrimLeft(s) ==
    IF s = <<>> THEN s
    ELSE IF IsWhitespace(Head(s)) THEN TrimLeft(Tail(s)) ELSE s

RECURSIVE TrimRight(_)
TrimRight(s) ==
    IF s = <<>> THEN s
    ELSE IF IsWhitespace(s[Len(s)]) THEN TrimRight(SubSeq(s, 1, Len(s) - 1)) ELSE s

Trim(s) == TrimRight(TrimLeft(s))

\* !s for a string: the empty string is the only falsy one.
Falsy(s) == s = <<>>

\* s.split("\n\n"), last element: the text after the last blank line.
RECURSIVE LastParagraph(_)
LastParagraph(s) ==
    IF \E i \in 1..(Len(s) - 1) : s[i] = "\n" /\ s[i + 1] = "\n"
    THEN LET i == CHOOSE j \in 1..(Len(s) - 1) :
                     /\ s[j] = "\n" /\ s[j + 1] = "\n"
                     /\ \A k \in 1..(j - 1) : ~(s[k] = "\n" /\ s[k + 1] = "\n")
         IN LastParagraph(SubSeq(s, i + 2, Len(s)))
    ELSE s

(***************************************************************************)
(* The editable surface: tokens of the serialised child list.              *)
(***************************************************************************)
InlineTag == {"strong", "em", "u"}
Open(tag) == "<" \o tag \o ">"
Close(tag) == "</" \o tag \o ">"
ParagraphBreak == "<div/>"
TagTokens ==
    {Open(t) : t \in InlineTag \cup {"p"}} \cup {Close(t) : t \in InlineTag \cup {"p"}}
        \cup {ParagraphBreak, "<br>"}
IsChar(tok) == tok \notin TagTokens

\* The rendered-text items of a token: a character, collapsible white space
\* ("WS"), or a required line break of a block boundary.
ItemOf(tok) ==
    CASE tok \in {"<p>", "</p>"} -> <<"RLB2">>
      [] tok = ParagraphBreak -> <<"RLB1">>
      [] tok = "<br>" -> <<"BR">>
      [] tok = "\n" -> <<"WS">>
      [] tok \in TagTokens -> <<>>
      [] OTHER -> <<tok>>

RECURSIVE Items(_)
Items(toks) == IF toks = <<>> THEN <<>> ELSE ItemOf(Head(toks)) \o Items(Tail(toks))

RlbCount(it) == IF it = "RLB2" THEN 2 ELSE IF it = "RLB1" THEN 1 ELSE 0

Newlines(n) == [i \in 1..n |-> "\n"]

\* The innerText getter: required line breaks at the start and the end are
\* dropped, a run of them becomes as many newlines as its largest count, and
\* white space next to a block boundary is collapsed away.
RECURSIVE Render(_, _, _)
Render(items, pend, started) ==
    IF items = <<>> THEN <<>>
    ELSE LET h == Head(items)
             rest == Tail(items)
         IN IF RlbCount(h) > 0
            THEN Render(rest, IF started THEN (IF RlbCount(h) > pend THEN RlbCount(h) ELSE pend) ELSE 0, started)
            ELSE IF h = "WS"
            THEN IF pend > 0 \/ ~started \/ rest = <<>> \/ RlbCount(Head(rest)) > 0
                 THEN Render(rest, pend, started)
                 ELSE <<" ">> \o Render(rest, 0, TRUE)
            ELSE Newlines(pend) \o <<(IF h = "BR" THEN "\n" ELSE h)>> \o Render(rest, 0, TRUE)

InnerText(surf) == Render(Items(surf), 0, FALSE)

\* The innerText setter: the children become text, with a <br> per newline.
SetInnerText(s) == [i \in 1..Len(s) |-> IF s[i] = "\n" THEN "<br>" ELSE s[i]]

\* Node.textContent of a token span: its characters, tags dropped.
RECURSIVE TextContent(_)
TextContent(toks) ==
    IF toks = <<>> THEN <<>>
    ELSE (IF IsChar(Head(toks)) THEN <<Head(toks)>> ELSE <<>>) \o TextContent(Tail(toks))

(***************************************************************************)
(* marked.parse: markdown to HTML.  A markdown source is a sequence of     *)
(* characters; blank lines separate paragraphs, a "**X**" token is a bold  *)
(* heading, and every paragraph is serialised as <p>..</p> and a newline.  *)
(***************************************************************************)
IsBoldToken(c) == c \in {"**D**", "**B**"}
BoldText(c) == IF c = "**D**" THEN "D" ELSE "B"

RECURSIVE InlineHtml(_)
InlineHtml(md) ==
    IF md = <<>> THEN <<>>
    ELSE (IF IsBoldToken(Head(md))
          THEN <<Open("strong"), BoldText(Head(md)), Close("strong")>>
          ELSE <<Head(md)>>) \o InlineHtml(Tail(md))

\* The paragraphs of a markdown source: maximal runs without a blank line.
RECURSIVE Paragraphs(_, _)
Paragraphs(md, cur) ==
    IF md = <<>> THEN (IF Trim(cur) = <<>> THEN <<>> ELSE <<Trim(cur)>>)
    ELSE IF Len(md) >= 2 /\ md[1] = "\n" /\ md[2] = "\n"
    THEN (IF Trim(cur) = <<>> THEN <<>> ELSE <<Trim(cur)>>) \o Paragraphs(Tail(Tail(md)), <<>>)
    ELSE Paragraphs(Tail(md), Append(cur, Head(md)))

RECURSIVE ParagraphsHtml(_)
ParagraphsHtml(ps) ==
    IF ps = <<>> THEN <<>>
    ELSE <<"<p>">> \o InlineHtml(Head(ps)) \o <<"</p>", "\n">> \o ParagraphsHtml(Tail(ps))

MarkedParse(md) == ParagraphsHtml(Paragraphs(md, <<>>))

\* wrapper.childNodes: the top-level nodes of an HTML token sequence, each a
\* token sequence of its own (an element with its content, or a text node).
RECURSIVE ChildNodes(_, _, _)
ChildNodes(html, cur, depth) ==
    IF html = <<>> THEN (IF cur = <<>> THEN <<>> ELSE <<cur>>)
    ELSE LET h == Head(html)
             isOpen == \E t \in InlineTag \cup {"p"} : h = Open(t)
             isClose == \E t \in InlineTag \cup {"p"} : h = Close(t)
         IN IF isOpen THEN ChildNodes(Tail(html), Append(cur, h), depth + 1)
            ELSE IF isClose /\ depth = 1 THEN <<Append(cur, h)>> \o ChildNodes(Tail(html), <<>>, 0)
            ELSE IF isClose THEN ChildNodes(Tail(html), Append(cur, h), depth - 1)
            ELSE IF depth = 0 THEN <<<<h>>>> \o ChildNodes(Tail(html), <<>>, 0)
            ELSE ChildNodes(Tail(html), Append(cur, h), depth)

(***************************************************************************)
(* State.                                                                  *)
(***************************************************************************)
VARIABLES
    \* App
    editorContent, saved, isLoading, error, storyContext,
    isBrainstormDialogOpen, isCreativeBranchingOpen,
    \* the contenteditable element and MainEditor
    surface, windowSelection, selectedText, range, showTooltip,
    \* BrainstormDialog
    isFirstStep, ideaPrompt, brainstormIsGenerating,
    \* CreativeBranchingDialog
    currentScenario, branchHistory, scenarioText, branchQuestion,
    branchIsGenerating, branches, branchError,
    customBranchTitle, customBranchContent, activeTab,
    \* LeftSidebar
    activeItem, generatorPrompt, generatedContent, sidebarIsGenerating, sidebarError,
    parsedCharacters,
    \* requests handed to fetch and not yet resolved
    net,
    \* the gestures the user has made and the requests handed to fetch so far
    gestures, issued

appVars == <<editorContent, saved, isLoading, error, storyContext,
             isBrainstormDialogOpen, isCreativeBranchingOpen>>
editorVars == <<surface, windowSelection, selectedText, range, showTooltip>>
brainstormVars == <<isFirstStep, ideaPrompt, brainstormIsGenerating>>
branchVars == <<currentScenario, branchHistory, scenarioText, branchQuestion,
                branchIsGenerating, branches, branchError,
                customBranchTitle, customBranchContent, activeTab>>
sidebarVars == <<activeItem, generatorPrompt, generatedContent, sidebarIsGenerating,
                 sidebarError, parsedCharacters>>
vars == <<appVars, editorVars, brainstormVars, branchVars, sidebarVars, net, gestures, issued>>

(***************************************************************************)
(* JavaScript values of a request payload: undefined, a string (characters *)
(* v, or a fixed text lit of the code), or the story-context object.       *)
(***************************************************************************)
Undefined == [t |-> "undefined"]
Str(s) == [t |-> "string", v |-> s]
Lit(l) == [t |-> "string", lit |-> l]
Obj(o) == [t |-> "object", o |-> o]

\* Boolean(x)
Truthy(x) ==
    /\ x.t # "undefined"
    /\ ("v" \in DOMAIN x) => x.v # <<>>
    /\ ("lit" \in DOMAIN x) => x.lit # ""

\* { ...a, ...b }
Spread(a, b) ==
    [k \in (DOMAIN a) \cup (DOMAIN b) |-> IF k \in DOMAIN b THEN b[k] ELSE a[k]]

\* JSON.stringify(body): a key whose value is undefined is left out.
JSONStringify(body) ==
    [k \in {x \in DOMAIN body : body[x].t # "undefined"} |-> body[k]]

StoryContextFields ==
    {"genre", "style", "synopsis", "characters", "worldbuilding", "outline",
     "target_audience_age"}

EmptyStoryContext == [f \in StoryContextFields |-> <<>>]

\* Object.values(storyContext).some(Boolean) ? storyContext : undefined
ContextOrUndefined(ctx) ==
    IF \E f \in DOMAIN ctx : ~Falsy(ctx[f]) THEN Obj(ctx) ELSE Undefined

(***************************************************************************)
(* The generation client (aiService.js).  A call either throws before any  *)
(* request, or hands one request (endpoint, serialised body) to fetch.     *)
(***************************************************************************)
Threw(message) == [threw |-> TRUE, message |-> message, endpoint |-> "", body |-> <<>>]
fetchFromApi(endpoint, body) ==
    [threw |-> FALSE, message |-> "", endpoint |-> endpoint, body |-> JSONStringify(body)]

generateWrite(payload) == fetchFromApi("/generate/write", payload)

generateRewrite(payload) ==
    IF ~("selection" \in DOMAIN payload /\ Truthy(payload.selection))
    THEN Threw("Selection is required for rewrite operation.")
    ELSE fetchFromApi("/generate/rewrite",
                      Spread([instruction |-> Lit("Rewrite the following text")], payload))

generateDescribe(payload) ==
    fetchFromApi("/generate/describe",
                 Spread([instruction |-> Lit("Describe the following text/concept in more detail")],
                        payload))

generateBrainstorm(payload) ==
    fetchFromApi("/generate/brainstorm",
                 Spread([instruction |-> Lit("Brainstorm ideas based on the following")], payload))

\* `Generate ${elementType} for my story` and `/generate/context/${elementType}`
generateContextElement(elementType, payload) ==
    fetchFromApi("/generate/context/" \o elementType,
                 Spread([instruction |-> Lit("Generate " \o elementType \o " for my story")],
                        payload))

generateGenre(payload) == generateContextElement("genre", payload)
generateCharacters(payload) == generateContextElement("characters", payload)

(***************************************************************************)
(* Responses of the backend exchange.                                      *)
(***************************************************************************)
GeneratedTexts == {<<>>, <<"g">>, <<"g", "\n", "\n", "h">>}

HttpFailure == "API request failed with status 500: Internal Server Error"
MarkedUndefined == "marked(): input parameter is undefined or null"

OkText(g) == [ok |-> TRUE, defined |-> TRUE, text |-> g, message |-> ""]
OkUndefined == [ok |-> TRUE, defined |-> FALSE, text |-> <<>>, message |-> ""]
Failure == [ok |-> FALSE, defined |-> FALSE, text |-> <<>>, message |-> HttpFailure]
TextResponses == {OkText(g) : g \in GeneratedTexts} \cup {OkUndefined, Failure}

\* `${generatedText}` in a template literal: undefined prints as a word.
TemplateText(resp) == IF resp.defined THEN resp.text ELSE <<"undefined">>

RemoveAt(seq, i) == SubSeq(seq, 1, i - 1) \o SubSeq(seq, i + 1, Len(seq))
Outstanding(kinds) == {i \in 1..Len(net) : net[i].kind \in kinds}

(***************************************************************************)
(* DOM ranges over the surface.  A boundary is a gap between tokens (0 is  *)
(* the start).  root says where the range lives: "null" (no range), the    *)
(* "editor", or a "detached" tree such as the wrapper div of a rewrite.    *)
(* A Range object is identified with its boundaries: two ranges with equal *)
(* boundaries are taken to be one object.                                  *)
(***************************************************************************)
NullRange == [root |-> "null", s |-> 0, e |-> 0]
EditorRange(s, e) == [root |-> "editor", s |-> s, e |-> e]
DetachedRange == [root |-> "detached", s |-> 0, e |-> 0]

TagFree(surf, s, e) == \A i \in (s + 1)..e : IsChar(surf[i])

\* Live-range updates of the DOM for a range r other than the one a mutation
\* goes through: tokens s+1..e removed; n tokens inserted at gap s; every
\* child replaced (an innerHTML assignment).
AfterDelete(r, s, e) ==
    LET Shift(b) == IF b <= s THEN b ELSE IF b <= e THEN s ELSE b - (e - s)
    IN IF r.root = "editor" THEN [r EXCEPT !.s = Shift(r.s), !.e = Shift(r.e)] ELSE r

AfterInsert(r, s, n) ==
    LET Shift(b) == IF b > s THEN b + n ELSE b
    IN IF r.root = "editor" THEN [r EXCEPT !.s = Shift(r.s), !.e = Shift(r.e)] ELSE r

AfterReplaceAll(r) == IF r.root = "editor" THEN EditorRange(0, 0) ELSE r

\* A range r after a splice through the range `through` that removed its
\* contents, put n tokens in the editor and left it as `result`.
AfterSplice(r, through, result, n) ==
    IF r = through THEN result
    ELSE IF through.root = "editor"
    THEN AfterInsert(AfterDelete(r, through.s, through.e), through.s, n)
    ELSE r

\* The window's selection holds a range of the document or none.
InDocument(r) == IF r.root = "editor" THEN r ELSE NullRange

MapCapturedRanges(q, F(_)) == [i \in 1..Len(q) |-> [q[i] EXCEPT !.cap.range = F(@)]]

\* A splice state: the surface and the range the splice goes through.
\* range.deleteContents()
DeleteContents(st) ==
    IF st.range.root = "editor"
    THEN [surface |-> SubSeq(st.surface, 1, st.range.s)
                         \o SubSeq(st.surface, st.range.e + 1, Len(st.surface)),
          range |-> [st.range EXCEPT !.e = st.range.s]]
    ELSE st

\* range.insertNode(node): the node goes in at the start boundary and a
\* collapsed range grows to hold it.
InsertNode(st, node) ==
    IF st.range.root = "editor"
    THEN [surface |-> SubSeq(st.surface, 1, st.range.s) \o node
                         \o SubSeq(st.surface, st.range.s + 1, Len(st.surface)),
          range |-> [st.range EXCEPT !.e = IF st.range.e = st.range.s
                                            THEN st.range.s + Len(node)
                                            ELSE st.range.e + Len(node)]]
    ELSE st

\* range.setStartAfter(node) for a node of the tree nodeRoot: a boundary in
\* another tree than the range's moves the whole range there.
SetStartAfter(st, nodeRoot, pos) ==
    IF nodeRoot # st.range.root
    THEN [st EXCEPT !.range = [DetachedRange EXCEPT !.root = nodeRoot]]
    ELSE [st EXCEPT !.range.s = pos, !.range.e = IF pos > st.range.e THEN pos ELSE st.range.e]

\* range.collapse(true)
Collapse(st) == [st EXCEPT !.range.e = st.range.s]

\* The forEach of handleAiAction over Array.from(wrapper.childNodes): a clone
\* of each node is inserted at the range, and the range start is then set
\* after the node itself, which is a child of the wrapper div.
RECURSIVE InsertChildNodes(_, _)
InsertChildNodes(nodes, st) ==
    IF nodes = <<>> THEN st
    ELSE InsertChildNodes(Tail(nodes),
                          Collapse(SetStartAfter(InsertNode(st, Head(nodes)), "detached", 0)))

(***************************************************************************)
(* Effects that run after a render.                                        *)
(***************************************************************************)
\* MainEditor: the surface is overwritten when its text is not editorContent.
MainEditorSyncEffect(surf, content) ==
    IF InnerText(surf) # content THEN SetInnerText(content) ELSE surf

\* CreativeBranchingDialog: the scenario is seeded from the editor content.
InitialScenarioEffect(content, text, scenario) ==
    IF ~Falsy(content) /\ Falsy(text) /\ scenario = "initial"
    THEN LastParagraph(content)
    ELSE text

(***************************************************************************)
(* App.                                                                    *)
(***************************************************************************)
\* A gesture of the user (a click, a keystroke, a selection) that hands
\* `requests` requests to fetch.  An edit of a form field, whose values come
\* from a finite set, is not counted.
Gesture(requests) ==
    /\ gestures < MaxGestures
    /\ issued + requests <= MaxRequests
    /\ gestures' = gestures + 1
    /\ issued' = issued + requests

\* A handleEditorChange that leaves the saved flag alone.
handleEditorChangeKeepingSaved(surf, value) ==
    /\ editorContent' = value
    /\ UNCHANGED saved
    /\ surface' = MainEditorSyncEffect(surf, value)
    /\ scenarioText' = InitialScenarioEffect(value, scenarioText, currentScenario)

\* handleEditorChange({target: {value}}), with the effects of the re-render;
\* surf is the surface as the caller left it.
handleEditorChange(surf, value) ==
    /\ editorContent' = value
    /\ saved' = FALSE
    /\ surface' = MainEditorSyncEffect(surf, value)
    /\ scenarioText' = InitialScenarioEffect(value, scenarioText, currentScenario)

branchRest == <<currentScenario, branchHistory, branchQuestion, branchIsGenerating,
                branches, branchError, customBranchTitle, customBranchContent, activeTab>>

\* The dialogs cover the whole window (fixed inset-0) while they are open.
NoOverlay == ~isBrainstormDialogOpen /\ ~isCreativeBranchingOpen

ContextValues == {<<>>, <<" ">>, <<"a">>}

\* A field of the Story Bible panel edited: setStoryContext(c => ({...c, [field]: value})).
setStoryContext(field, value) ==
    /\ NoOverlay
    /\ field \in StoryContextFields /\ value \in ContextValues
    /\ storyContext' = [storyContext EXCEPT ![field] = value]
    /\ UNCHANGED <<editorContent, saved, isLoading, error, isBrainstormDialogOpen,
                   isCreativeBranchingOpen, editorVars, brainstormVars, branchVars, net,
                   gestures, issued, sidebarVars>>

handleSave ==
    /\ Gesture(0)
    /\ saved' = TRUE
    /\ UNCHANGED <<editorContent, isLoading, error, storyContext, isBrainstormDialogOpen,
                   isCreativeBranchingOpen, editorVars, brainstormVars, branchVars, net,
                   sidebarVars>>


Request(kind, call, capRange) ==
    [kind |-> kind, endpoint |-> call.endpoint, body |-> call.body,
     cap |-> [editorContent |-> editorContent, range |-> capRange]]

\* The append of handleGenerateWrite, handleGenerateDescribe and
\* handleBrainstormResult: closureContent is the editorContent the handler
\* closed over.
AppendHtml(surf, closureContent, html) ==
    IF ~Falsy(Trim(closureContent)) THEN surf \o <<ParagraphBreak>> \o html ELSE html

WritePayload(instruction) ==
    [instruction |-> Lit(instruction),
     current_text |-> Str(editorContent),
     story_context |-> ContextOrUndefined(storyContext)]

handleGenerateWrite ==
    /\ Gesture(1)
    /\ NoOverlay
    /\ isLoading' = TRUE
    /\ error' = "null"
    /\ net' = Append(net, Request("write",
                  generateWrite(WritePayload("Continue writing the story based on the current text.")),
                  NullRange))
    /\ UNCHANGED <<editorContent, saved, storyContext, isBrainstormDialogOpen,
                   isCreativeBranchingOpen, editorVars, brainstormVars, branchVars, sidebarVars>>

handleGenerateDescribe ==
    /\ Gesture(1)
    /\ NoOverlay
    /\ isLoading' = TRUE
    /\ error' = "null"
    /\ net' = Append(net, Request("describe",
                  generateDescribe(WritePayload("Describe the last paragraph or concept.")),
                  NullRange))
    /\ UNCHANGED <<editorContent, saved, storyContext, isBrainstormDialogOpen,
                   isCreativeBranchingOpen, editorVars, brainstormVars, branchVars, sidebarVars>>

\* What follows the await of handleGenerateWrite (describe = FALSE) and of
\* handleGenerateDescribe (describe = TRUE) for request i and its response.
GenerateResume(i, resp, describe) ==
    LET req == net[i]
        md == IF describe THEN <<"\n", "\n", "**D**", "\n">> \o TemplateText(resp) ELSE resp.text
        throws == ~resp.ok \/ (~describe /\ ~resp.defined)
        surf == AppendHtml(surface, req.cap.editorContent, MarkedParse(md))
    IN /\ isLoading' = FALSE
       /\ IF throws
          THEN /\ error' = (IF resp.ok THEN MarkedUndefined ELSE resp.message)
               /\ UNCHANGED <<editorContent, saved, surface, scenarioText, range,
                              windowSelection>>
               /\ net' = RemoveAt(net, i)
          ELSE /\ handleEditorChange(surf, InnerText(surf))
               /\ range' = AfterReplaceAll(range)
               /\ windowSelection' = AfterReplaceAll(windowSelection)
               /\ net' = MapCapturedRanges(RemoveAt(net, i), AfterReplaceAll)
               /\ UNCHANGED error
       /\ UNCHANGED <<storyContext, isBrainstormDialogOpen, isCreativeBranchingOpen,
                      selectedText, showTooltip, brainstormVars, branchRest>>
       /\ UNCHANGED <<sidebarVars, gestures, issued>>

handleGenerateWriteResume(i, resp) ==
    /\ net[i].kind = "write"
    /\ GenerateResume(i, resp, FALSE)

handleGenerateDescribeResume(i, resp) ==
    /\ net[i].kind = "describe"
    /\ GenerateResume(i, resp, TRUE)

(***************************************************************************)
(* MainEditor.                                                             *)
(***************************************************************************)
TypedChars == {"a", " "}

Keys == TypedChars \cup {"Delete"}

\* onInput: the browser has applied a keystroke at the window's selection: a
\* character replaces the selected tokens and the caret follows it; Delete
\* removes them.
handleInput(key) ==
    /\ Gesture(0)
    /\ NoOverlay
    /\ key \in Keys
    /\ windowSelection.root = "editor"
    /\ TagFree(surface, windowSelection.s, windowSelection.e)
    /\ LET s == windowSelection.s
           e == windowSelection.e
           typed == IF key = "Delete" THEN <<>> ELSE <<key>>
           surf == SubSeq(surface, 1, s) \o typed \o SubSeq(surface, e + 1, Len(surface))
           caret == EditorRange(s + Len(typed), s + Len(typed))
           Live(r) == AfterSplice(r, windowSelection, caret, Len(typed))
       IN /\ surf # surface
          /\ handleEditorChange(surf, InnerText(surf))
          /\ windowSelection' = caret
          /\ range' = Live(range)
          /\ net' = MapCapturedRanges(net, Live)
    /\ UNCHANGED <<isLoading, error, storyContext, isBrainstormDialogOpen,
                   isCreativeBranchingOpen, selectedText, showTooltip,
                   brainstormVars, branchRest, sidebarVars>>

\* onMouseUp / onKeyUp with the window's selection now over gaps s..e of the
\* surface (s = e: collapsed).  Whether the browser moves the Range object
\* of the previous selection or makes a new one is its choice (reuse).
handleTextSelection(s, e, reuse) ==
    /\ Gesture(0)
    /\ NoOverlay
    /\ s \in 0..Len(surface) /\ e \in s..Len(surface)
    /\ TagFree(surface, s, e)
    /\ LET selected == TextContent(SubSeq(surface, s + 1, e))
           Moved(r) == IF reuse /\ r = windowSelection /\ r.root = "editor"
                       THEN EditorRange(s, e) ELSE r
       IN /\ windowSelection' = EditorRange(s, e)
          /\ net' = MapCapturedRanges(net, Moved)
          /\ IF s # e
             THEN IF ~Falsy(Trim(selected))
                  THEN /\ selectedText' = selected
                       /\ range' = EditorRange(s, e)
                       /\ showTooltip' = TRUE
                  ELSE /\ showTooltip' = FALSE
                       /\ range' = Moved(range)
                       /\ UNCHANGED selectedText
             ELSE /\ showTooltip' = FALSE
                  /\ selectedText' = <<>>
                  /\ range' = NullRange
    /\ UNCHANGED <<appVars, surface, brainstormVars, branchVars, sidebarVars>>

FormattingTag(action) ==
    CASE action = "Bold" -> "strong"
      [] action = "Italic" -> "em"
      [] action = "Underline" -> "u"

\* selection.toString() of the window's selection.
SelectionToString ==
    IF windowSelection.root = "editor"
    THEN TextContent(SubSeq(surface, windowSelection.s + 1, windowSelection.e))
    ELSE <<>>

\* The splice of handleFormattingAction: the text of the window's selection,
\* wrapped in the tag's element, replaces the contents of the range.
FormattingSplice(action) ==
    LET newNode == <<Open(FormattingTag(action))>> \o SelectionToString
                       \o <<Close(FormattingTag(action))>>
    IN InsertNode(DeleteContents([surface |-> surface, range |-> range]), newNode)

\* The tokens a splice through range `through` put in the editor.
Inserted(through, surf) ==
    IF through.root = "editor"
    THEN Len(surf) - (Len(surface) - (through.e - through.s))
    ELSE 0

\* handleFormattingAction without its call of handleEditorChange.
handleFormattingActionUntracked(action) ==
    /\ Gesture(0)
    /\ NoOverlay
    /\ showTooltip
    /\ range # NullRange
    /\ LET st == FormattingSplice(action)
           Live(r) == AfterSplice(r, range, st.range, Inserted(range, st.surface))
       IN /\ surface' = st.surface
          /\ range' = st.range
          /\ windowSelection' = InDocument(Live(windowSelection))
          /\ net' = MapCapturedRanges(net, Live)
    /\ UNCHANGED <<appVars, selectedText, showTooltip, brainstormVars, branchVars, sidebarVars>>

\* A button of the tooltip, which is rendered while showTooltip holds.
handleFormattingAction(action) ==
    /\ Gesture(0)
    /\ NoOverlay
    /\ showTooltip
    /\ action \in {"Bold", "Italic", "Underline"}
    /\ IF range = NullRange
       THEN UNCHANGED <<editorContent, saved, surface, scenarioText, range,
                        windowSelection, net>>
       ELSE LET st == FormattingSplice(action)
                Live(r) == AfterSplice(r, range, st.range, Inserted(range, st.surface))
            IN               /\ handleEditorChange(st.surface, InnerText(st.surface))
               /\ range' = st.range
               /\ windowSelection' = InDocument(Live(windowSelection))
               /\ net' = MapCapturedRanges(net, Live)
    /\ UNCHANGED <<isLoading, error, storyContext, isBrainstormDialogOpen,
                   isCreativeBranchingOpen, selectedText, showTooltip,
                   brainstormVars, branchRest, sidebarVars>>

RewriteInstructions ==
    {Lit("Rewrite the text to be longer."), Lit("Rewrite the text to be shorter.")}

\* handleAiAction("Rewrite", instruction) up to its await.
handleAiAction(instruction) ==
    /\ NoOverlay
    /\ showTooltip
    /\ instruction \in RewriteInstructions
    /\ IF Falsy(selectedText) \/ range = NullRange
       THEN Gesture(0) /\ UNCHANGED <<isLoading, error, showTooltip, net>>
       ELSE LET payload == [selection |-> Str(selectedText),
                            current_text |-> Str(editorContent),
                            instruction |-> instruction]
                call == generateRewrite(payload)
            IN IF call.threw
               THEN /\ Gesture(0)
                    /\ error' = call.message
                    /\ showTooltip' = TRUE
                    /\ isLoading' = FALSE
                    /\ UNCHANGED net
               ELSE /\ Gesture(1)
                    /\ isLoading' = TRUE
                    /\ error' = "null"
                    /\ showTooltip' = FALSE
                    /\ net' = Append(net, Request("rewrite", call, range))
    /\ UNCHANGED <<editorContent, saved, storyContext, isBrainstormDialogOpen,
                   isCreativeBranchingOpen, surface, windowSelection, selectedText, range,
                   brainstormVars, branchVars, sidebarVars>>

\* The targeted replace of handleAiAction through range rr.
RewriteSplice(rr, generatedText) ==
    InsertChildNodes(ChildNodes(MarkedParse(generatedText), <<>>, 0),
                     DeleteContents([surface |-> surface, range |-> rr]))

\* What follows the await of handleAiAction for request i and its response.
handleAiActionResume(i, resp) ==
    /\ net[i].kind = "rewrite"
    /\ isLoading' = FALSE
    /\ IF ~resp.ok \/ ~resp.defined
       THEN /\ error' = (IF resp.ok THEN MarkedUndefined ELSE resp.message)
            /\ showTooltip' = TRUE
            /\ net' = RemoveAt(net, i)
            /\ UNCHANGED <<editorContent, saved, surface, scenarioText, range,
                           windowSelection>>
       ELSE LET rr == net[i].cap.range
                st == RewriteSplice(rr, resp.text)
                Live(r) == AfterSplice(r, rr, st.range, Inserted(rr, st.surface))
            IN               /\ handleEditorChange(st.surface, InnerText(st.surface))
               /\ range' = Live(range)
               /\ windowSelection' = InDocument(Live(windowSelection))
               /\ net' = MapCapturedRanges(RemoveAt(net, i), Live)
               /\ UNCHANGED <<error, showTooltip>>
    /\ UNCHANGED <<storyContext, isBrainstormDialogOpen, isCreativeBranchingOpen,
                   selectedText, brainstormVars, branchRest>>
    /\ UNCHANGED <<sidebarVars, gestures, issued>>

(***************************************************************************)
(* BrainstormDialog.                                                       *)
(***************************************************************************)
\* toggleBrainstormDialog from the navigation bar, and the reset effect that
\* runs when isOpen becomes true.
toggleBrainstormDialog ==
    /\ Gesture(0)
    /\ NoOverlay
    /\ isBrainstormDialogOpen' = TRUE
    /\ isFirstStep' = TRUE
    /\ ideaPrompt' = <<>>
    /\ UNCHANGED <<editorContent, saved, isLoading, error, storyContext,
                   isCreativeBranchingOpen, editorVars, brainstormIsGenerating,
                   branchVars, net, sidebarVars>>

\* onClose of the Brainstorm dialog.
closeBrainstormDialog ==
    /\ Gesture(0)
    /\ isBrainstormDialogOpen
    /\ isBrainstormDialogOpen' = FALSE
    /\ UNCHANGED <<editorContent, saved, isLoading, error, storyContext,
                   isCreativeBranchingOpen, editorVars, brainstormVars, branchVars, net,
                   sidebarVars>>

BrainstormCategories == {"dialogue", "custom"}

\* The default idea prompt of a category ("i" stands for its fixed text).
DefaultIdeaPrompt(category) == IF category = "custom" THEN <<>> ELSE <<"i">>

handleCategorySelect(category) ==
    /\ Gesture(0)
    /\ isBrainstormDialogOpen /\ isFirstStep
    /\ category \in BrainstormCategories
    /\ isFirstStep' = FALSE
    /\ ideaPrompt' = DefaultIdeaPrompt(category)
    /\ UNCHANGED <<appVars, editorVars, brainstormIsGenerating, branchVars, net, sidebarVars>>

IdeaPrompts == {<<>>, <<" ">>, <<"i">>}

setIdeaPrompt(value) ==
    /\ isBrainstormDialogOpen /\ ~isFirstStep
    /\ value \in IdeaPrompts
    /\ ideaPrompt' = value
    /\ UNCHANGED <<appVars, editorVars, isFirstStep, brainstormIsGenerating, branchVars, net,
                   gestures, issued, sidebarVars>>

handleBack ==
    /\ Gesture(0)
    /\ isBrainstormDialogOpen /\ ~isFirstStep
    /\ isFirstStep' = TRUE
    /\ UNCHANGED <<appVars, editorVars, ideaPrompt, brainstormIsGenerating, branchVars, net,
                   sidebarVars>>

\* handleStartBrainstorming up to its await, with its own check of the
\* prompt; the Start button is disabled while isGenerating holds.
handleStartBrainstorming ==
    /\ isBrainstormDialogOpen /\ ~isFirstStep
    /\ ~brainstormIsGenerating
    /\ IF Falsy(Trim(ideaPrompt))
       THEN Gesture(0) /\ UNCHANGED <<brainstormIsGenerating, net>>
       ELSE /\ Gesture(1)
            /\ brainstormIsGenerating' = TRUE
            /\ net' = Append(net, Request("brainstorm",
                          generateBrainstorm(
                              [instruction |-> [t |-> "string",
                                                template |-> "Brainstorm a list of: ",
                                                arg |-> ideaPrompt],
                               current_text |-> Str(editorContent),
                               story_context |-> Obj(storyContext)]),
                          NullRange))
    /\ UNCHANGED <<appVars, editorVars, isFirstStep, ideaPrompt, branchVars, sidebarVars>>

\* What follows the await of handleStartBrainstorming: on success
\* handleBrainstormResult (App) appends the result and onClose closes the
\* dialog; on failure the catch block runs.
handleStartBrainstormingResume(i, resp) ==
    /\ net[i].kind = "brainstorm"
    /\ IF resp.ok
       THEN LET md == <<"\n", "\n", "**B**", "\n">> \o TemplateText(resp)
                surf == AppendHtml(surface, net[i].cap.editorContent, MarkedParse(md))
            IN               /\ handleEditorChange(surf, InnerText(surf))
               /\ range' = AfterReplaceAll(range)
               /\ windowSelection' = AfterReplaceAll(windowSelection)
               /\ net' = MapCapturedRanges(RemoveAt(net, i), AfterReplaceAll)
               /\ isBrainstormDialogOpen' = FALSE
               /\ UNCHANGED brainstormIsGenerating
       ELSE /\ brainstormIsGenerating' = FALSE
            /\ net' = RemoveAt(net, i)
            /\ UNCHANGED <<editorContent, saved, surface, scenarioText, range,
                           windowSelection, isBrainstormDialogOpen>>
    /\ UNCHANGED <<isLoading, error, storyContext, isCreativeBranchingOpen,
                   selectedText, showTooltip, isFirstStep, ideaPrompt, branchRest>>
    /\ UNCHANGED <<sidebarVars, gestures, issued>>

(***************************************************************************)
(* The editor specification: App, MainEditor and the Brainstorm dialog.    *)
(***************************************************************************)
Init ==
    /\ editorContent = <<>>
    /\ saved = TRUE
    /\ isLoading = FALSE
    /\ error = "null"
    /\ storyContext = EmptyStoryContext
    /\ isBrainstormDialogOpen = FALSE
    /\ isCreativeBranchingOpen = FALSE
    /\ surface = <<>>
    /\ windowSelection = NullRange
    /\ selectedText = <<>>
    /\ range = NullRange
    /\ showTooltip = FALSE
    /\ isFirstStep = TRUE
    /\ ideaPrompt = <<>>
    /\ brainstormIsGenerating = FALSE
    /\ currentScenario = "initial"
    /\ branchHistory = <<>>
    /\ scenarioText = <<>>
    /\ branchQuestion = <<>>
    /\ branchIsGenerating = FALSE
    /\ branches = <<>>
    /\ branchError = "null"
    /\ customBranchTitle = <<>>
    /\ customBranchContent = <<>>
    /\ activeTab = "editor"
    /\ activeItem = "null"
    /\ generatorPrompt = <<>>
    /\ generatedContent = Str(<<>>)
    /\ sidebarIsGenerating = FALSE
    /\ sidebarError = "null"
    /\ parsedCharacters = <<>>
    /\ net = <<>>
    /\ gestures = 0
    /\ issued = 0

(***************************************************************************)
(* CreativeBranchingDialog.                                                *)
(***************************************************************************)
\* toggleCreativeBranching from the navigation bar.
toggleCreativeBranching ==
    /\ Gesture(0)
    /\ NoOverlay
    /\ isCreativeBranchingOpen' = TRUE
    /\ UNCHANGED <<editorContent, saved, isLoading, error, storyContext,
                   isBrainstormDialogOpen, editorVars, brainstormVars, branchVars, net,
                   sidebarVars>>

\* onClose of the Creative Branching dialog.
closeCreativeBranching ==
    /\ Gesture(0)
    /\ isCreativeBranchingOpen
    /\ isCreativeBranchingOpen' = FALSE
    /\ UNCHANGED <<editorContent, saved, isLoading, error, storyContext,
                   isBrainstormDialogOpen, editorVars, brainstormVars, branchVars, net,
                   sidebarVars>>

\* The "Story Editor" tab of the open dialog is showing.
StoryEditorTab == isCreativeBranchingOpen /\ activeTab = "editor"

setActiveTab(tab) ==
    /\ isCreativeBranchingOpen
    /\ tab \in {"editor", "visualization"}
    /\ activeTab' = tab
    /\ UNCHANGED <<appVars, editorVars, brainstormVars, currentScenario, branchHistory,
                   scenarioText, branchQuestion, branchIsGenerating, branches, branchError,
                   customBranchTitle, customBranchContent, net, gestures, issued, sidebarVars>>

ScenarioTexts == {<<>>, <<"s">>}
BranchQuestions == {<<>>, <<"q">>}
\* The same with a whitespace-only value.
BlankableScenarioTexts == ScenarioTexts \cup {<<" ">>}
BlankableBranchQuestions == BranchQuestions \cup {<<" ">>}

\* The scenario textarea edited, and the seeding effect of the re-render.
setScenarioText(value) ==
    /\ StoryEditorTab
    /\ value \in BlankableScenarioTexts
    /\ scenarioText' = InitialScenarioEffect(editorContent, value, currentScenario)
    /\ UNCHANGED <<appVars, editorVars, brainstormVars, currentScenario, branchHistory,
                   branchQuestion, branchIsGenerating, branches, branchError,
                   customBranchTitle, customBranchContent, activeTab, net, gestures, issued,
                   sidebarVars>>

setBranchQuestion(value) ==
    /\ StoryEditorTab
    /\ value \in BlankableBranchQuestions
    /\ branchQuestion' = value
    /\ UNCHANGED <<appVars, editorVars, brainstormVars, currentScenario, branchHistory,
                   scenarioText, branchIsGenerating, branches, branchError,
                   customBranchTitle, customBranchContent, activeTab, net, gestures, issued,
                   sidebarVars>>

generateStoryBranches(payload) ==
    fetchFromApi("/generate/story-branches",
                 Spread([instruction |-> Lit("Generate alternative story branches")], payload))

\* A handleGenerateBranches that tests its fields for emptiness only.
handleGenerateBranchesUntrimmed ==
    /\ StoryEditorTab
    /\ ~branchIsGenerating
    /\ ~Falsy(scenarioText) /\ ~Falsy(branchQuestion)
    /\ Gesture(1)
    /\ branchIsGenerating' = TRUE
    /\ branchError' = "null"
    /\ net' = Append(net, [Request("branches",
                  generateStoryBranches(
                      [instruction |-> [t |-> "string",
                                        template |-> "Generate 3 distinct story branches",
                                        scenario |-> scenarioText,
                                        question |-> branchQuestion],
                       current_text |-> [t |-> "string",
                                         template |-> "Current scenario",
                                         content |-> editorContent,
                                         scenario |-> scenarioText],
                       story_context |-> Obj(storyContext)]),
                  NullRange)
                          EXCEPT !.cap = [editorContent |-> editorContent,
                                          range |-> NullRange,
                                          scenario |-> currentScenario]])
    /\ UNCHANGED <<appVars, editorVars, brainstormVars, currentScenario, branchHistory,
                   scenarioText, branchQuestion, branches,
                   customBranchTitle, customBranchContent, activeTab, sidebarVars>>

\* handleGenerateBranches up to its await; the button is disabled while
\* isGenerating holds or a field is blank.  The request keeps the id of the
\* scenario it was made at.
handleGenerateBranches ==
    /\ StoryEditorTab
    /\ ~branchIsGenerating
    /\ ~Falsy(Trim(scenarioText)) /\ ~Falsy(Trim(branchQuestion))
    /\ IF Falsy(Trim(scenarioText))
       THEN /\ Gesture(0)
            /\ branchError' = "Please describe the current scenario first."
            /\ UNCHANGED <<branchIsGenerating, net>>
       ELSE IF Falsy(Trim(branchQuestion))
       THEN /\ Gesture(0)
            /\ branchError' = "Please enter a branching question."
            /\ UNCHANGED <<branchIsGenerating, net>>
       ELSE /\ Gesture(1)
            /\ branchIsGenerating' = TRUE
            /\ branchError' = "null"
            /\ net' = Append(net, [Request("branches",
                          generateStoryBranches(
                              [instruction |-> [t |-> "string",
                                                template |-> "Generate 3 distinct story branches",
                                                scenario |-> scenarioText,
                                                question |-> branchQuestion],
                               current_text |-> [t |-> "string",
                                                 template |-> "Current scenario",
                                                 content |-> editorContent,
                                                 scenario |-> scenarioText],
                               story_context |-> Obj(storyContext)]),
                          NullRange)
                          EXCEPT !.cap = [editorContent |-> editorContent,
                                          range |-> NullRange,
                                          scenario |-> currentScenario]])
    /\ UNCHANGED <<appVars, editorVars, brainstormVars, currentScenario, branchHistory,
                   scenarioText, branchQuestion, branches,
                   customBranchTitle, customBranchContent, activeTab, sidebarVars>>

\* Branches as the backend sends them; a missing field reads as "".
RawBranch(id, title, summary, content) ==
    [id |-> id, title |-> title, summary |-> summary, content |-> content]
RawBranchLists ==
    {<<>>,
     <<RawBranch("b1", <<"T">>, <<"S">>, <<"c">>)>>,
     <<RawBranch("b1", <<"T">>, <<"S">>, <<"c">>), RawBranch("", <<>>, <<>>, <<>>)>>}

\* Values of `branch-${Math.random().toString(36).substr(2, 9)}`.
RandomIds == {"branch-r1", "branch-r2"}

OkBranches(raw) == [ok |-> TRUE, shape |-> "list", branches |-> raw, message |-> ""]
OkNoBranches == [ok |-> TRUE, shape |-> "none", branches |-> <<>>, message |-> ""]
OkMalformed == [ok |-> TRUE, shape |-> "malformed", branches |-> <<>>, message |-> ""]
BranchFailure == [ok |-> FALSE, shape |-> "none", branches |-> <<>>, message |-> HttpFailure]
BranchResponses ==
    {OkBranches(raw) : raw \in RawBranchLists} \cup {OkNoBranches, OkMalformed, BranchFailure}

\* A generateStoryBranches that passes the backend's id through as it is.
StoryBranchesResultIdsAsSent(resp, rnd) ==
    IF ~resp.ok THEN [threw |-> TRUE, message |-> resp.message, branches |-> <<>>]
    ELSE IF resp.shape = "malformed"
    THEN [threw |-> TRUE, message |-> "Failed to parse story branches response",
          branches |-> <<>>]
    ELSE [threw |-> FALSE, message |-> "",
          branches |-> [k \in 1..Len(resp.branches) |->
                           LET branch == resp.branches[k]
                           IN [id |-> branch.id,
                               title |-> IF ~Falsy(branch.title) THEN branch.title
                                         ELSE <<"Untitled Branch">>,
                               summary |-> branch.summary,
                               content |-> branch.content]]]

\* The body of generateStoryBranches after its await: the branches it
\* returns, or the message of the error it throws; rnd gives the random id
\* drawn for each branch.
StoryBranchesResult(resp, rnd) ==
    IF ~resp.ok THEN [threw |-> TRUE, message |-> resp.message, branches |-> <<>>]
    ELSE IF resp.shape = "malformed"
    THEN [threw |-> TRUE, message |-> "Failed to parse story branches response",
          branches |-> <<>>]
    ELSE IF resp.shape = "none" THEN [threw |-> FALSE, message |-> "", branches |-> <<>>]
    ELSE [threw |-> FALSE, message |-> "",
          branches |-> [k \in 1..Len(resp.branches) |->
                           LET branch == resp.branches[k]
                           IN [id |-> IF branch.id # "" THEN branch.id ELSE rnd[k],
                               title |-> IF ~Falsy(branch.title) THEN branch.title
                                         ELSE <<"Untitled Branch">>,
                               summary |-> branch.summary,
                               content |-> branch.content]]]

\* A handleGenerateBranches that sends the request again when it failed.
handleGenerateBranchesRetrying(i, resp, rnd) ==
    /\ net[i].kind = "branches"
    /\ LET result == StoryBranchesResult(resp, rnd)
       IN IF result.threw
          THEN /\ issued < MaxRequests
               /\ issued' = issued + 1
               /\ net' = Append(RemoveAt(net, i), net[i])
               /\ UNCHANGED <<branches, branchError, branchIsGenerating>>
          ELSE /\ branches' = result.branches
               /\ branchIsGenerating' = FALSE
               /\ net' = RemoveAt(net, i)
               /\ UNCHANGED <<branchError, issued>>
    /\ UNCHANGED <<appVars, editorVars, brainstormVars, currentScenario, branchHistory,
                   scenarioText, branchQuestion, customBranchTitle, customBranchContent,
                   activeTab, gestures, sidebarVars>>

\* handleGenerateBranches from its await on.
handleGenerateBranchesResume(i, resp, rnd) ==
    /\ net[i].kind = "branches"
    /\ LET result == StoryBranchesResult(resp, rnd)
       IN IF result.threw
          THEN /\ branchError' = (IF result.message # "" THEN result.message
                                  ELSE "Failed to generate story branches.")
               /\ UNCHANGED branches
          ELSE /\ branches' = result.branches
               /\ UNCHANGED branchError
    /\ branchIsGenerating' = FALSE
    /\ net' = RemoveAt(net, i)
    /\ UNCHANGED <<appVars, editorVars, brainstormVars, currentScenario, branchHistory,
                   scenarioText, branchQuestion, customBranchTitle, customBranchContent,
                   activeTab, gestures, issued, sidebarVars>>

\* The scenario under exploration: id, text, question, candidates, history.
Scenario ==
    [id |-> currentScenario, text |-> scenarioText, question |-> branchQuestion,
     branches |-> branches, history |-> branchHistory]

\* A handleSelectBranch that carries the question over to the selected branch.
SelectBranchKeepingQuestion(sc, branch, content) ==
    IF branch.id = "" THEN sc
    ELSE [id |-> branch.id,
          text |-> branch.content,
          question |-> sc.question,
          branches |-> <<>>,
          history |-> Append(sc.history, [id |-> sc.id, text |-> sc.text,
                                          question |-> sc.question,
                                          branches |-> sc.branches])]

\* The state updates of handleSelectBranch(branch) on a scenario, with the
\* seeding effect of the re-render; content is the editor content.
SelectBranch(sc, branch, content) ==
    IF branch.id = "" THEN sc
    ELSE [id |-> branch.id,
          text |-> InitialScenarioEffect(content, branch.content, branch.id),
          question |-> <<>>,
          branches |-> <<>>,
          history |-> Append(sc.history, [id |-> sc.id, text |-> sc.text,
                                          question |-> sc.question,
                                          branches |-> sc.branches])]

\* A handleGoBack that pops the history and keeps the scenario id.
GoBackKeepingScenarioId(sc, content) ==
    IF Len(sc.history) > 0
    THEN LET previousState == sc.history[Len(sc.history)]
         IN [id |-> sc.id,
             text |-> InitialScenarioEffect(content, previousState.text, sc.id),
             question |-> previousState.question,
             branches |-> previousState.branches,
             history |-> SubSeq(sc.history, 1, Len(sc.history) - 1)]
    ELSE sc

\* A handleGoBack that returns to a fresh initial scenario when there is
\* nothing to go back to.
GoBackOrReset(sc, content) ==
    IF Len(sc.history) > 0
    THEN LET previousState == sc.history[Len(sc.history)]
         IN [id |-> previousState.id,
             text |-> InitialScenarioEffect(content, previousState.text, previousState.id),
             question |-> previousState.question,
             branches |-> previousState.branches,
             history |-> SubSeq(sc.history, 1, Len(sc.history) - 1)]
    ELSE [id |-> "initial", text |-> InitialScenarioEffect(content, <<>>, "initial"),
          question |-> <<>>, branches |-> <<>>, history |-> <<>>]

\* A handleGoBack that leaves the question field as it is.
GoBackKeepingQuestion(sc, content) ==
    IF Len(sc.history) > 0
    THEN LET previousState == sc.history[Len(sc.history)]
         IN [id |-> previousState.id,
             text |-> InitialScenarioEffect(content, previousState.text, previousState.id),
             question |-> sc.question,
             branches |-> previousState.branches,
             history |-> SubSeq(sc.history, 1, Len(sc.history) - 1)]
    ELSE sc

\* The state updates of handleGoBack on a scenario, with the seeding effect.
GoBack(sc, content) ==
    IF Len(sc.history) > 0
    THEN LET previousState == sc.history[Len(sc.history)]
         IN [id |-> previousState.id,
             text |-> InitialScenarioEffect(content, previousState.text, previousState.id),
             question |-> previousState.question,
             branches |-> previousState.branches,
             history |-> SubSeq(sc.history, 1, Len(sc.history) - 1)]
    ELSE sc

SetScenario(sc) ==
    /\ currentScenario' = sc.id
    /\ scenarioText' = sc.text
    /\ branchQuestion' = sc.question
    /\ branches' = sc.branches
    /\ branchHistory' = sc.history

\* The candidate grid shows while no generation runs and there are branches.
BranchGrid == StoryEditorTab /\ ~branchIsGenerating /\ Len(branches) > 0

\* "Explore This Branch" on the k-th card of the grid.
handleSelectBranch(k) ==
    /\ Gesture(0)
    /\ BranchGrid
    /\ k \in 1..Len(branches)
    /\ SetScenario(SelectBranch(Scenario, branches[k], editorContent))
    /\ activeTab' = IF branches[k].id = "" THEN activeTab ELSE "visualization"
    /\ UNCHANGED <<appVars, editorVars, brainstormVars, branchIsGenerating, branchError,
                   customBranchTitle, customBranchContent, net, sidebarVars>>

\* "Back to Previous"; the button is disabled while the history is empty.
handleGoBack ==
    /\ Gesture(0)
    /\ StoryEditorTab
    /\ Len(branchHistory) # 0
    /\ SetScenario(GoBack(Scenario, editorContent))
    /\ UNCHANGED <<appVars, editorVars, brainstormVars, branchIsGenerating, branchError,
                   customBranchTitle, customBranchContent, activeTab, net, sidebarVars>>

CustomTitles == {<<>>, <<"t">>}
\* The length customBranchContent.slice(0, 100) cuts at.
SummaryLength == 100

CustomContents == {<<>>, <<"d">>}

\* Contents around the length the summary is cut at.
SummaryContents ==
    {<<"d">>, [i \in 1..SummaryLength |-> "x"], [i \in 1..(SummaryLength + 1) |-> "y"]}

\* A summary that is the whole content.
CustomSummaryWhole(content) == content

\* customBranchContent.slice(0, 100) + (customBranchContent.length > 100 ? "..." : "")
CustomSummary(content) ==
    SubSeq(content, 1, IF Len(content) > SummaryLength THEN SummaryLength ELSE Len(content))
        \o (IF Len(content) > SummaryLength THEN <<"...">> ELSE <<>>)

setCustomBranchTitle(value) ==
    /\ BranchGrid
    /\ value \in CustomTitles \cup {<<" ">>}
    /\ customBranchTitle' = value
    /\ UNCHANGED <<appVars, editorVars, brainstormVars, currentScenario, branchHistory,
                   scenarioText, branchQuestion, branchIsGenerating, branches, branchError,
                   customBranchContent, activeTab, net, gestures, issued, sidebarVars>>

setCustomBranchContent(value) ==
    /\ BranchGrid
    /\ value \in CustomContents \cup SummaryContents
    /\ customBranchContent' = value
    /\ UNCHANGED <<appVars, editorVars, brainstormVars, currentScenario, branchHistory,
                   scenarioText, branchQuestion, branchIsGenerating, branches, branchError,
                   customBranchTitle, activeTab, net, gestures, issued, sidebarVars>>

\* Values of `custom-${Date.now()}`.
CustomIds == {"custom-1", "custom-2"}

\* A handleCustomBranch that puts the new branch in front of the candidates.
handleCustomBranchInFront(now) ==
    /\ Gesture(0)
    /\ BranchGrid
    /\ now \in CustomIds
    /\ IF ~Falsy(Trim(customBranchTitle)) /\ ~Falsy(Trim(customBranchContent))
       THEN /\ branches' = <<[id |-> now, title |-> customBranchTitle,
                              content |-> customBranchContent,
                              summary |-> CustomSummary(customBranchContent),
                              isCustom |-> TRUE]>> \o branches
            /\ customBranchTitle' = <<>>
            /\ customBranchContent' = <<>>
       ELSE UNCHANGED <<branches, customBranchTitle, customBranchContent>>
    /\ UNCHANGED <<appVars, editorVars, brainstormVars, currentScenario, branchHistory,
                   scenarioText, branchQuestion, branchIsGenerating, branchError,
                   activeTab, net, sidebarVars>>

\* "Add Custom Branch"; now is the clock reading.
handleCustomBranch(now) ==
    /\ Gesture(0)
    /\ BranchGrid
    /\ now \in CustomIds
    /\ IF ~Falsy(Trim(customBranchTitle)) /\ ~Falsy(Trim(customBranchContent))
       THEN /\ branches' = Append(branches, 
                   [id |-> now, title |-> customBranchTitle,
                    content |-> customBranchContent,
                    summary |-> CustomSummary(customBranchContent),
                    isCustom |-> TRUE])
            /\ customBranchTitle' = <<>>
            /\ customBranchContent' = <<>>
       ELSE UNCHANGED <<branches, customBranchTitle, customBranchContent>>
    /\ UNCHANGED <<appVars, editorVars, brainstormVars, currentScenario, branchHistory,
                   scenarioText, branchQuestion, branchIsGenerating, branchError,
                   activeTab, net, sidebarVars>>

\* getBranchTitle(historyItem, index) of the path view, index counted from 1:
\* the title of the first candidate of the entry whose id is the id of the
\* next entry (of the current scenario for the last entry).
getBranchTitle(historyItem, index) ==
    LET nextBranchId == IF index < Len(branchHistory) THEN branchHistory[index + 1].id
                        ELSE currentScenario
        found == {k \in 1..Len(historyItem.branches) :
                     historyItem.branches[k].id = nextBranchId}
    IN IF Len(historyItem.branches) > 0 /\ found # {}
       THEN historyItem.branches[CHOOSE k \in found : \A j \in found : k <= j].title
       ELSE IF ~Falsy(historyItem.question) THEN historyItem.question
       ELSE <<"Branch ", ToString(index)>>

\* getCurrentBranchTitle(): the title shown for the node under exploration.
getCurrentBranchTitle ==
    IF Len(branchHistory) > 0
    THEN LET lastHistory == branchHistory[Len(branchHistory)]
             found == {k \in 1..Len(lastHistory.branches) :
                          lastHistory.branches[k].id = currentScenario}
         IN IF found # {}
            THEN lastHistory.branches[CHOOSE k \in found : \A j \in found : k <= j].title
            ELSE <<>>
    ELSE <<>>

(***************************************************************************)
(* LeftSidebar: the story-bible generators.                                *)
(***************************************************************************)
StoryBibleItems ==
    {"Braindump", "Genre", "Style", "Synopsis", "Characters", "Worldbuilding", "Outline"}

\* A story-bible item clicked: it opens, or closes when it was open, and the
\* generator's prompt, result, characters and error are reset.
handleItemClick(item) ==
    /\ Gesture(0)
    /\ NoOverlay
    /\ item \in StoryBibleItems
    /\ activeItem' = IF activeItem = item THEN "null" ELSE item
    /\ generatorPrompt' = <<>>
    /\ generatedContent' = Str(<<>>)
    /\ parsedCharacters' = <<>>
    /\ sidebarError' = "null"
    /\ UNCHANGED <<appVars, editorVars, brainstormVars, branchVars, sidebarIsGenerating, net>>

GeneratorPrompts == {<<>>, <<" ">>, <<"p">>}

\* The prompt textarea under the active item.
setGeneratorPrompt(value) ==
    /\ NoOverlay
    /\ activeItem # "null"
    /\ value \in GeneratorPrompts
    /\ generatorPrompt' = value
    /\ UNCHANGED <<appVars, editorVars, brainstormVars, branchVars, activeItem,
                   generatedContent, sidebarIsGenerating, sidebarError, parsedCharacters,
                   net, gestures, issued>>

\* handleGenerate(elementType) up to its await, with its own check of the
\* prompt; the Generate button stands under the active item and is disabled
\* while isGenerating holds.  The request keeps the elementType of the call.
handleGenerate(elementType) ==
    /\ NoOverlay
    /\ elementType = activeItem /\ elementType \in StoryBibleItems
    /\ ~sidebarIsGenerating
    /\ IF Falsy(Trim(generatorPrompt))
       THEN /\ Gesture(0)
            /\ sidebarError' = "Please enter a prompt to guide the generation."
            /\ UNCHANGED <<sidebarIsGenerating, net>>
       ELSE LET payload == [instruction |-> Str(generatorPrompt),
                            current_text |-> Str(editorContent),
                            story_context |-> Obj(storyContext)]
                call == CASE elementType = "Characters" -> generateCharacters(payload)
                          [] elementType = "Genre" -> generateGenre(payload)
                          [] elementType = "Style" -> generateContextElement("style", payload)
                          [] elementType = "Worldbuilding" ->
                                 generateContextElement("worldbuilding", payload)
                          [] elementType = "Synopsis" ->
                                 generateContextElement("synopsis", payload)
                          [] elementType = "Outline" ->
                                 generateContextElement("outline", payload)
                          [] elementType = "Braindump" ->
                                 generateCharacters(Spread(payload,
                                     [instruction |->
                                          [t |-> "string",
                                           template |-> "Free-form brainstorm about the story, focusing on: ",
                                           arg |-> generatorPrompt]]))
                req == Request("context", call, NullRange)
            IN /\ Gesture(1)
               /\ sidebarIsGenerating' = TRUE
               /\ sidebarError' = "null"
               /\ net' = Append(net, [req EXCEPT !.cap = [editorContent |-> editorContent,
                                                           range |-> NullRange,
                                                           elementType |-> elementType]])
    /\ UNCHANGED <<appVars, editorVars, brainstormVars, branchVars, activeItem,
                   generatorPrompt, generatedContent, parsedCharacters>>

\* markdown.split("\n")
RECURSIVE SplitLines(_)
SplitLines(s) ==
    IF \E i \in 1..Len(s) : s[i] = "\n"
    THEN LET i == CHOOSE j \in 1..Len(s) :
                     s[j] = "\n" /\ \A k \in 1..(j - 1) : s[k] # "\n"
         IN <<SubSeq(s, 1, i - 1)>> \o SplitLines(SubSeq(s, i + 1, Len(s)))
    ELSE <<s>>

\* parseCharacters(markdown), called for the Characters item: a line that
\* starts with "# " or "## " opens a character, the lines that follow are
\* added to it; without a heading the whole text is one character.  The
\* split of an undefined text throws, and the catch returns the text as one
\* character.
parseCharacters(markdown) ==
    IF ~("v" \in DOMAIN markdown) THEN <<[name |-> <<"Character">>, content |-> markdown]>>
    ELSE LET lines == SplitLines(markdown.v)
             IsHeading(line) ==
                 \/ Len(line) >= 2 /\ line[1] = "#" /\ line[2] = " "
                 \/ Len(line) >= 3 /\ line[1] = "#" /\ line[2] = "#" /\ line[3] = " "
             NameOf(line) ==
                 Trim(SubSeq(line, (IF line[2] = " " THEN 3 ELSE 4), Len(line)))
             \* the characters pushed and the current one after k lines
             loop[k \in 0..Len(lines)] ==
                 IF k = 0 THEN [characters |-> <<>>, current |-> <<>>]
                 ELSE LET st == loop[k - 1]
                          line == lines[k]
                      IN IF IsHeading(line)
                         THEN [characters |-> st.characters \o st.current,
                               current |-> <<[name |-> NameOf(line),
                                              content |-> line \o <<"\n">>]>>]
                         ELSE IF st.current # <<>>
                         THEN [st EXCEPT !.current[1].content = @ \o line \o <<"\n">>]
                         ELSE st
             end == loop[Len(lines)]
             characters == end.characters \o end.current
         IN IF Len(characters) > 0
            THEN [c \in 1..Len(characters) |->
                     [name |-> characters[c].name, content |-> Str(characters[c].content)]]
            ELSE <<[name |-> <<"Character">>, content |-> markdown]>>

\* What follows the await of handleGenerate: the result is stored (and parsed
\* for Characters), or the catch block stores the message; finally the flag
\* is cleared.
handleGenerateResume(i, resp) ==
    /\ net[i].kind = "context"
    /\ LET generatedText == IF resp.defined THEN Str(resp.text) ELSE Undefined
       IN IF resp.ok
          THEN /\ generatedContent' = generatedText
               /\ parsedCharacters' = IF net[i].cap.elementType = "Characters"
                                      THEN parseCharacters(generatedText)
                                      ELSE parsedCharacters
               /\ UNCHANGED sidebarError
          ELSE /\ sidebarError' = resp.message
               /\ parsedCharacters' = <<>>
               /\ UNCHANGED generatedContent
    /\ sidebarIsGenerating' = FALSE
    /\ net' = RemoveAt(net, i)
    /\ UNCHANGED <<appVars, editorVars, brainstormVars, branchVars, activeItem,
                   generatorPrompt, gestures, issued>>

\* "Add" on the card of the index-th parsed character (the cards stand under
\* the Characters item).
addCharacterToContext(index) ==
    /\ Gesture(0)
    /\ NoOverlay
    /\ activeItem = "Characters"
    /\ index \in 1..Len(parsedCharacters)
    /\ LET character == parsedCharacters[index]
       IN IF ~Truthy(character.content)
          THEN UNCHANGED storyContext
          ELSE storyContext' =
                   [storyContext EXCEPT !.characters =
                        IF ~Falsy(@) THEN @ \o <<"\n", "\n">> \o character.content.v
                        ELSE character.content.v]
    /\ UNCHANGED <<editorContent, saved, isLoading, error, isBrainstormDialogOpen,
                   isCreativeBranchingOpen, editorVars, brainstormVars, branchVars,
                   sidebarVars, net>>

contextFieldMap ==
    [Genre |-> "genre", Style |-> "style", Worldbuilding |-> "worldbuilding",
     Synopsis |-> "synopsis", Outline |-> "outline", Braindump |-> "characters"]

\* An addToContext that builds the mapping anew around the field it sets.
addToContextFromEmpty(elementType) ==
    /\ Gesture(0)
    /\ NoOverlay
    /\ elementType = activeItem /\ elementType \in StoryBibleItems
    /\ ~(elementType = "Characters" /\ Len(parsedCharacters) > 0)
    /\ Truthy(generatedContent)
    /\ IF elementType \notin DOMAIN contextFieldMap
       THEN UNCHANGED storyContext
       ELSE storyContext' =
                [EmptyStoryContext EXCEPT ![contextFieldMap[elementType]] =
                     IF ~Falsy(storyContext[contextFieldMap[elementType]])
                     THEN storyContext[contextFieldMap[elementType]]
                              \o <<"\n", "\n">> \o generatedContent.v
                     ELSE generatedContent.v]
    /\ UNCHANGED <<editorContent, saved, isLoading, error, isBrainstormDialogOpen,
                   isCreativeBranchingOpen, editorVars, brainstormVars, branchVars,
                   sidebarVars, net>>

\* "Add to Context" under the generated content of the active item (the
\* Characters item shows it while it has no parsed characters).
addToContext(elementType) ==
    /\ Gesture(0)
    /\ NoOverlay
    /\ elementType = activeItem /\ elementType \in StoryBibleItems
    /\ ~(elementType = "Characters" /\ Len(parsedCharacters) > 0)
    /\ Truthy(generatedContent)
    /\ IF elementType \notin DOMAIN contextFieldMap
       THEN UNCHANGED storyContext
       ELSE storyContext' =
                [storyContext EXCEPT ![contextFieldMap[elementType]] =
                     IF ~Falsy(@) THEN @ \o <<"\n", "\n">> \o generatedContent.v
                     ELSE generatedContent.v]
    /\ UNCHANGED <<editorContent, saved, isLoading, error, isBrainstormDialogOpen,
                   isCreativeBranchingOpen, editorVars, brainstormVars, branchVars,
                   sidebarVars, net>>

(***************************************************************************)
(* A caller of the generation client.                                      *)
(***************************************************************************)
Selections == {Undefined, Str(<<>>), Str(<<" ">>), Str(<<"\n", " ">>), Str(<<"a">>), Str(<<" ", "a">>)}

RewritePayloads ==
    LET base == {[selection |-> sel, current_text |-> Str(text)] :
                    sel \in Selections, text \in {<<>>, <<"a">>}}
                \cup {[current_text |-> Str(<<"a">>)]}
    IN base \cup {Spread(b, [instruction |-> i]) : b \in base, i \in RewriteInstructions}

\* generateRewrite(payload) called and awaited inside a try block whose catch
\* stores the message.
callGenerateRewrite(payload) ==
    LET call == generateRewrite(payload)
    IN /\ IF call.threw
          THEN Gesture(0) /\ error' = call.message /\ UNCHANGED net
          ELSE /\ Gesture(1)
               /\ net' = Append(net, Request("rewrite", call, NullRange))
               /\ UNCHANGED error
       /\ UNCHANGED <<editorContent, saved, isLoading, storyContext, isBrainstormDialogOpen,
                      isCreativeBranchingOpen, editorVars, brainstormVars, branchVars,
                      sidebarVars>>

\* Payloads of a caller that leaves the instruction out, passes undefined
\* for it, or supplies one.
ClientKinds == {"write", "describe", "brainstorm", "context", "branches"}
ClientPayloads ==
    {[current_text |-> Str(<<"a">>)],
     [instruction |-> Undefined, current_text |-> Str(<<"a">>)],
     [instruction |-> Lit("Make it rhyme"), current_text |-> Str(<<"a">>)]}

ClientCall(kind, payload) ==
    CASE kind = "write" -> generateWrite(payload)
      [] kind = "describe" -> generateDescribe(payload)
      [] kind = "brainstorm" -> generateBrainstorm(payload)
      [] kind = "context" -> generateGenre(payload)
      [] kind = "branches" -> generateStoryBranches(payload)

\* A generation operation of the client called with a payload.
callGenerate(kind, payload) ==
    /\ Gesture(1)
    /\ net' = Append(net, Request(kind, ClientCall(kind, payload), NullRange))
    /\ UNCHANGED <<appVars, editorVars, brainstormVars, branchVars, sidebarVars>>

(***************************************************************************)
(* Specifications.  Spec is the MainEditor with the Story Bible panel;     *)
(* SpecToolbar the navigation bar's Write and Describe; SpecBrainstorm the *)
(* Brainstorm dialog; SpecDocument every handler that splices the surface; *)
(* SpecClient a caller of generateRewrite.                                 *)
(***************************************************************************)
Next ==
    \/ \E key \in Keys : handleInput(key)
    \/ \E s \in 0..Len(surface), e \in 0..Len(surface), reuse \in BOOLEAN :
          handleTextSelection(s, e, reuse)
    \/ \E action \in {"Bold", "Italic", "Underline"} : handleFormattingAction(action)
    \/ \E instruction \in RewriteInstructions : handleAiAction(instruction)
    \/ \E i \in 1..Len(net), resp \in TextResponses : handleAiActionResume(i, resp)
    \/ \E field \in {"genre", "synopsis"}, value \in ContextValues :
          setStoryContext(field, value)

NextToolbar ==
    \/ \E key \in Keys : handleInput(key)
    \/ \E s \in {0, Len(surface)} : handleTextSelection(s, s, FALSE)
    \/ handleSave
    \/ handleGenerateWrite
    \/ \E i \in 1..Len(net), resp \in TextResponses : handleGenerateWriteResume(i, resp)
    \/ handleGenerateDescribe
    \/ \E i \in 1..Len(net), resp \in TextResponses : handleGenerateDescribeResume(i, resp)

NextBrainstorm ==
    \/ \E key \in Keys : handleInput(key)
    \/ \E s \in {0, Len(surface)} : handleTextSelection(s, s, FALSE)
    \/ \E field \in {"genre", "synopsis"}, value \in ContextValues :
          setStoryContext(field, value)
    \/ toggleBrainstormDialog
    \/ closeBrainstormDialog
    \/ \E category \in BrainstormCategories : handleCategorySelect(category)
    \/ \E value \in IdeaPrompts : setIdeaPrompt(value)
    \/ handleBack
    \/ handleStartBrainstorming
    \/ \E i \in 1..Len(net), resp \in TextResponses : handleStartBrainstormingResume(i, resp)

Spec == Init /\ [][Next]_vars

SpecToolbar == Init /\ [][NextToolbar]_vars

SpecBrainstorm == Init /\ [][NextBrainstorm]_vars

DocumentResponses == {OkText(<<"g">>), Failure}

NextDocument ==
    \/ handleInput("a")
    \/ \E s \in 0..Len(surface), e \in 0..Len(surface) : handleTextSelection(s, e, FALSE)
    \/ handleFormattingAction("Bold")
    \/ handleAiAction(Lit("Rewrite the text to be longer."))
    \/ \E i \in 1..Len(net), resp \in DocumentResponses : handleAiActionResume(i, resp)
    \/ handleGenerateWrite
    \/ \E i \in 1..Len(net), resp \in DocumentResponses : handleGenerateWriteResume(i, resp)
    \/ handleGenerateDescribe
    \/ \E i \in 1..Len(net), resp \in DocumentResponses : handleGenerateDescribeResume(i, resp)
    \/ toggleBrainstormDialog
    \/ handleCategorySelect("dialogue")
    \/ handleStartBrainstorming
    \/ \E i \in 1..Len(net), resp \in DocumentResponses :
          handleStartBrainstormingResume(i, resp)

SpecDocument == Init /\ [][NextDocument]_vars

\* The document mutated, saved, and mutated again.
NextSave ==
    \/ handleInput("a")
    \/ \E s \in 0..Len(surface), e \in 0..Len(surface) : handleTextSelection(s, e, FALSE)
    \/ handleFormattingAction("Bold")
    \/ handleAiAction(Lit("Rewrite the text to be longer."))
    \/ \E i \in 1..Len(net), resp \in DocumentResponses : handleAiActionResume(i, resp)
    \/ handleGenerateWrite
    \/ \E i \in 1..Len(net), resp \in DocumentResponses : handleGenerateWriteResume(i, resp)
    \/ setStoryContext("genre", <<"a">>)
    \/ handleSave

SpecSave == Init /\ [][NextSave]_vars

NextClient ==
    \/ \E payload \in RewritePayloads : callGenerateRewrite(payload)
    \/ \E kind \in ClientKinds, payload \in ClientPayloads : callGenerate(kind, payload)

SpecClient == Init /\ [][NextClient]_vars

\* The Branch Explorer over a document typed into the editor.
NextBranch ==
    \/ handleInput("a")
    \/ handleTextSelection(Len(surface), Len(surface), FALSE)
    \/ toggleCreativeBranching
    \/ closeCreativeBranching
    \/ \E tab \in {"editor", "visualization"} : setActiveTab(tab)
    \/ \E value \in ScenarioTexts : setScenarioText(value)
    \/ \E value \in BranchQuestions : setBranchQuestion(value)
    \/ handleGenerateBranches
    \/ \E i \in 1..Len(net), resp \in BranchResponses, rnd \in [1..2 -> RandomIds] :
           handleGenerateBranchesResume(i, resp, rnd)
    \/ \E k \in 1..Len(branches) : handleSelectBranch(k)
    \/ handleGoBack
    \/ \E value \in CustomTitles : setCustomBranchTitle(value)
    \/ \E value \in CustomContents : setCustomBranchContent(value)
    \/ \E now \in CustomIds : handleCustomBranch(now)

SpecBranch == Init /\ [][NextBranch]_vars

\* Custom branches added to the candidates of a generated list.
NextCustom ==
    \/ toggleCreativeBranching
    \/ setScenarioText(<<"s">>)
    \/ setBranchQuestion(<<"q">>)
    \/ handleGenerateBranches
    \/ \E i \in 1..Len(net), rnd \in [1..2 -> RandomIds] :
           handleGenerateBranchesResume(i, OkBranches(<<RawBranch("b1", <<"T">>, <<"S">>, <<"c">>)>>), rnd)
    \/ \E value \in CustomTitles \cup {<<" ">>} : setCustomBranchTitle(value)
    \/ \E value \in SummaryContents : setCustomBranchContent(value)
    \/ \E now \in CustomIds : handleCustomBranch(now)
    \/ \E k \in 1..Len(branches) : handleSelectBranch(k)

SpecCustom == Init /\ [][NextCustom]_vars

\* Generation in the Branch Explorer over blank and non-blank fields.
NextGenerate ==
    \/ toggleCreativeBranching
    \/ \E value \in BlankableScenarioTexts : setScenarioText(value)
    \/ \E value \in BlankableBranchQuestions : setBranchQuestion(value)
    \/ handleGenerateBranches
    \/ \E i \in 1..Len(net), resp \in BranchResponses, rnd \in [1..2 -> RandomIds] :
           handleGenerateBranchesResume(i, resp, rnd)

SpecGenerate == Init /\ [][NextGenerate]_vars

\* The story-bible generators of the left sidebar and the form of the right
\* one.
SidebarResponses ==
    {OkText(<<"g">>), OkText(<<"#", " ", "A", "\n", "x", "\n", "#", "#", " ", "B">>),
     OkUndefined, Failure}

NextSidebar ==
    \/ \E item \in {"Genre", "Style", "Characters", "Braindump"} : handleItemClick(item)
    \/ \E value \in GeneratorPrompts : setGeneratorPrompt(value)
    \/ \E elementType \in StoryBibleItems : handleGenerate(elementType)
    \/ \E i \in 1..Len(net), resp \in SidebarResponses : handleGenerateResume(i, resp)
    \/ \E index \in 1..Len(parsedCharacters) : addCharacterToContext(index)
    \/ \E elementType \in StoryBibleItems : addToContext(elementType)
    \/ \E field \in {"genre", "characters"}, value \in {<<>>, <<"a">>} :
          setStoryContext(field, value)

SpecSidebar == Init /\ [][NextSidebar]_vars

\* A path explored through generated candidates (ids as the backend chose
\* them, also repeated or missing) and custom ones.
NextPath ==
    \/ toggleCreativeBranching
    \/ setScenarioText(<<"s">>)
    \/ setBranchQuestion(<<"q">>)
    \/ handleGenerateBranches
    \/ \E i \in 1..Len(net), rnd \in [1..2 -> RandomIds],
          raw \in {<<RawBranch("b1", <<"T">>, <<"S">>, <<"c">>),
                     RawBranch("b2", <<"U">>, <<"S">>, <<"c">>)>>,
                   <<RawBranch("b1", <<"T">>, <<"S">>, <<"c">>),
                     RawBranch("b1", <<"U">>, <<"S">>, <<"c">>)>>,
                   <<RawBranch("b1", <<"T">>, <<"S">>, <<"c">>),
                     RawBranch("", <<>>, <<>>, <<>>)>>} :
           handleGenerateBranchesResume(i, OkBranches(raw), rnd)
    \/ \E k \in 1..Len(branches) : handleSelectBranch(k)
    \/ handleGoBack
    \/ setCustomBranchTitle(<<"t">>)
    \/ setCustomBranchContent(<<"d">>)
    \/ \E now \in CustomIds : handleCustomBranch(now)
    \/ \E tab \in {"editor", "visualization"} : setActiveTab(tab)

SpecPath == Init /\ [][NextPath]_vars

(***************************************************************************)
(* The claims.                                                             *)
(***************************************************************************)
\* C1: no in-flight flag is still true while no request of its component is
\* outstanding (App isLoading for write, describe and rewrite; the Brainstorm
\* dialog's isGenerating; the Creative Branching dialog's isGenerating).
C1_FlagClearedOnceResolved ==
    /\ isLoading => Outstanding({"write", "describe", "rewrite"}) # {}
    /\ brainstormIsGenerating => Outstanding({"brainstorm"}) # {}
    /\ branchIsGenerating => Outstanding({"branches"}) # {}

\* C2: no second request of a kind is issued before the first one of that
\* kind has resolved: two outstanding requests never have the same kind.
C2_NoSecondRequestOfAKind ==
    \A i, j \in 1..Len(net) : i # j => net[i].kind # net[j].kind

\* C3: a successful rewrite whose fragment has n >= 1 top-level nodes leaves
\* all of them, in fragment order, where the anchor's span was.
C3_AllNodesInserted ==
    [][\A i \in 1..Len(net), resp \in TextResponses :
          LET rr == net[i].cap.range
              html == MarkedParse(resp.text)
          IN (/\ resp.ok /\ resp.defined
              /\ rr.root = "editor"
              /\ Len(ChildNodes(html, <<>>, 0)) >= 1
              /\ handleAiActionResume(i, resp))
             => surface' = SubSeq(surface, 1, rr.s) \o html
                               \o SubSeq(surface, rr.e + 1, Len(surface))]_vars

\* C4: a successful rewrite of the non-blank selection S of the document
\* text P+S+T with the result G leaves the document text P+G+T.
C4_SelectionReplacedInPlace ==
    [][\A i \in 1..Len(net), resp \in TextResponses :
          LET rr == net[i].cap.range
              P == InnerText(SubSeq(surface, 1, rr.s))
              S == TextContent(SubSeq(surface, rr.s + 1, rr.e))
              T == InnerText(SubSeq(surface, rr.e + 1, Len(surface)))
          IN (/\ resp.ok /\ resp.defined
              /\ rr.root = "editor"
              /\ ~Falsy(Trim(S))
              /\ editorContent = P \o S \o T
              /\ handleAiActionResume(i, resp))
             => editorContent' = P \o resp.text \o T]_vars

\* C5: the tracked document content equals the plain text re-derived from
\* the editable surface, so the sync effect finds nothing to overwrite.
C5_ContentIsSurfaceText ==
    /\ editorContent = InnerText(surface)
    /\ MainEditorSyncEffect(surface, editorContent) = surface

\* C5 (its case): a formatting splice and an append or replace have both
\* left their elements on a surface with text.
C5_SplicedSurface ==
    /\ \E i \in 1..Len(surface) : surface[i] = Open("strong")
    /\ \E i \in 1..Len(surface) : surface[i] = Open("p")
    /\ editorContent # <<>>
    /\ net = <<>>

\* C6: every mutation of the editable surface discards the selection anchor.
C6_MutationDiscardsAnchor ==
    [][surface' # surface => (range' = NullRange /\ selectedText' = <<>>)]_vars

\* C7: no request reaches the rewrite endpoint with an empty or
\* whitespace-only selection.
C7_BlankSelectionNeverSent ==
    \A i \in 1..Len(net) :
        net[i].endpoint = "/generate/rewrite"
            => /\ "selection" \in DOMAIN net[i].body
               /\ ~Falsy(Trim(net[i].body.selection.v))

\* C8: a request issued while every Story Context field is blank has no
\* story_context key.
C8_BlankContextOmitted ==
    [][(Len(net') = Len(net) + 1 /\ \A f \in StoryContextFields : Falsy(Trim(storyContext[f])))
          => "story_context" \notin DOMAIN net'[Len(net')].body]_vars

\* C9: a request issued while some Story Context field is non-blank carries
\* story_context with all seven fields as stored.
C9_ContextSentVerbatim ==
    [][(Len(net') = Len(net) + 1 /\ \E f \in StoryContextFields : ~Falsy(Trim(storyContext[f])))
          => /\ "story_context" \in DOMAIN net'[Len(net')].body
             /\ net'[Len(net')].body.story_context = Obj(storyContext)]_vars

\* C10: in every reachable state of the Branch Explorer, selecting a branch
\* with a non-empty id and going back at once restores the scenario id, the
\* scenario text, the question, the candidates and the history exactly.
C10_BackRestoresPreSelect ==
    \A k \in 1..Len(branches) :
        branches[k].id # ""
        => GoBack(SelectBranch(Scenario, branches[k], editorContent), editorContent) = Scenario

\* A candidate can be selected at the initial scenario with an empty text and
\* a question in the field.
C10_InitialEmptyText ==
    /\ BranchGrid
    /\ currentScenario = "initial" /\ scenarioText = <<>> /\ branchQuestion # <<>>
    /\ \E k \in 1..Len(branches) : branches[k].id # ""

\* The candidate lists of the session: the current one and every history
\* entry's, as (list, position) pairs.
SessionBranchLists == <<branches>> \o [h \in 1..Len(branchHistory) |-> branchHistory[h].branches]

\* C11: within one exploration session no two branches of the current
\* candidate list or of a history entry's candidate list share an id.
C11_BranchIdsUnique ==
    \A l1, l2 \in 1..Len(SessionBranchLists) :
        \A k1 \in 1..Len(SessionBranchLists[l1]), k2 \in 1..Len(SessionBranchLists[l2]) :
            SessionBranchLists[l1][k1].id = SessionBranchLists[l2][k2].id
                => (l1 = l2 /\ k1 = k2)

\* C12: generateStoryBranches normalises every item of the response: a
\* missing id becomes a non-empty generated id, a present id and a present
\* title are kept, a missing summary or content is ""; a response without
\* branches gives the empty list and no failure; length and order are those
\* of the response.
C12_BranchesNormalised ==
    [][\A i \in 1..Len(net), resp \in BranchResponses, rnd \in [1..2 -> RandomIds] :
           (handleGenerateBranchesResume(i, resp, rnd) /\ resp.ok /\ resp.shape # "malformed")
           => /\ branchError' = branchError
              /\ Len(branches') = Len(resp.branches)
              /\ \A k \in 1..Len(resp.branches) :
                     /\ branches'[k].id # ""
                     /\ resp.branches[k].id # "" => branches'[k].id = resp.branches[k].id
                     /\ resp.branches[k].title # <<>>
                            => branches'[k].title = resp.branches[k].title
                     /\ branches'[k].summary = resp.branches[k].summary
                     /\ branches'[k].content = resp.branches[k].content]_vars

\* A response with a complete item and an item without id, summary or content
\* has been normalised into the candidate list.
C12_GeneratedIdInList ==
    /\ Len(branches) = 2
    /\ branches[1].id = "b1" /\ branches[1].title = <<"T">>
    /\ branches[2].id \in RandomIds
    /\ branches[2].summary = <<>> /\ branches[2].content = <<>>

\* C13: for every generation kind other than rewrite, a call that omits the
\* instruction (key absent or value undefined) sends a body carrying the
\* kind's documented default instruction verbatim, and a call that supplies
\* an instruction sends it unchanged.
C13_DefaultInstructionSent ==
    [][\A kind \in ClientKinds, payload \in ClientPayloads :
           callGenerate(kind, payload)
           => LET body == net'[Len(net')].body
                  omitted == \/ "instruction" \notin DOMAIN payload
                             \/ payload.instruction = Undefined
                  documented ==
                      CASE kind = "describe" ->
                               "Describe the following text/concept in more detail"
                        [] kind = "brainstorm" -> "Brainstorm ideas based on the following"
                        [] kind = "context" -> "Generate genre for my story"
                        [] kind = "branches" -> "Generate alternative story branches"
                        [] OTHER -> ""
              IN /\ "instruction" \in DOMAIN body
                 /\ (omitted /\ kind # "write") => body.instruction = Lit(documented)
                 /\ ~omitted => body.instruction = payload.instruction]_vars

\* C14: a custom branch's summary is its content when the content has at most
\* 100 characters, and otherwise the first 100 characters of the content
\* followed by the ellipsis marker "...".
C14_CustomSummaryTruncated ==
    \A l \in 1..Len(SessionBranchLists) : \A k \in 1..Len(SessionBranchLists[l]) :
        LET b == SessionBranchLists[l][k]
        IN "isCustom" \in DOMAIN b
           => IF Len(b.content) <= 100
              THEN b.summary = b.content
              ELSE /\ Len(b.summary) = 101
                   /\ \A i \in 1..100 : b.summary[i] = b.content[i]
                   /\ b.summary[101] = "..."

\* The candidate list holds a custom branch of exactly 100 characters and one
\* of more than 100.
C14_LongAndShortCustom ==
    /\ \E k \in 1..Len(branches) :
           "isCustom" \in DOMAIN branches[k] /\ Len(branches[k].content) = 100
    /\ \E k \in 1..Len(branches) :
           "isCustom" \in DOMAIN branches[k] /\ Len(branches[k].content) > 100

\* C15: the completion of a generation action (write, describe, rewrite,
\* brainstorm) with no error on record and a document that has not changed
\* since the action began takes exactly one path:
\* either the document is mutated and no error is recorded, or an error is
\* recorded and the document is not mutated; never both and never neither.
C15_ExactlyOneCompletionPath ==
    [][\A i \in 1..Len(net), resp \in DocumentResponses :
           (/\ error = "null"
            /\ net[i].cap.editorContent = editorContent
            /\ \/ handleGenerateWriteResume(i, resp)
               \/ handleGenerateDescribeResume(i, resp)
               \/ handleAiActionResume(i, resp)
               \/ handleStartBrainstormingResume(i, resp))
           => ((surface' # surface) # (error' # "null"))]_vars

\* C16: every step that mutates the Document or the surface leaves the saved
\* flag false, and the flag becomes true only in a handleSave step.
C16_SavedOnlyBySave ==
    [][/\ (editorContent' # editorContent \/ surface' # surface) => ~saved'
       /\ (~saved /\ saved') => handleSave]_vars

\* A completed generation has left a document that is not saved.
C16_UnsavedAfterGeneration ==
    /\ ~saved /\ ~isLoading /\ net = <<>>
    /\ \E k \in 1..Len(surface) : surface[k] = Open("p")

\* C17: a generation action hands exactly one request to the backend, and a
\* failed exchange is not retried: its completion removes the request, issues
\* none, and records the one error of the failure.
C17_OneExchangeNoRetry ==
    [][/\ issued' # issued => (issued' = issued + 1 /\ Len(net') = Len(net) + 1)
       /\ \A i \in 1..Len(net), resp \in BranchResponses, rnd \in [1..2 -> RandomIds] :
              (handleGenerateBranchesResume(i, resp, rnd) /\ ~resp.ok)
              => /\ issued' = issued
                 /\ net' = RemoveAt(net, i)
                 /\ branchError' = resp.message]_vars

\* A story-branches exchange has failed and its error is on record.
C17_FailedExchange ==
    /\ branchError = HttpFailure
    /\ issued = 1 /\ net = <<>> /\ ~branchIsGenerating

C19_BackOnEmptyHistoryNoOp ==
    Len(branchHistory) = 0 => GoBack(Scenario, editorContent) = Scenario

\* The history is empty while the scenario has a text, a question and
\* candidates.
C19_EmptyHistoryWithCandidates ==
    /\ Len(branchHistory) = 0
    /\ scenarioText # <<>> /\ branchQuestion # <<>> /\ Len(branches) > 0
    /\ StoryEditorTab

\* C20: generate issues a story-branches request only when the scenario text
\* and the question are both non-blank; on success the candidate list becomes
\* the returned branches; on failure an error is recorded and the scenario
\* id, text, question, candidate list and history are unchanged.
C20_GenerateBranches ==
    [][/\ (handleGenerateBranches /\ Len(net') = Len(net) + 1)
          => (~Falsy(Trim(scenarioText)) /\ ~Falsy(Trim(branchQuestion)))
       /\ \A i \in 1..Len(net), resp \in BranchResponses, rnd \in [1..2 -> RandomIds] :
              handleGenerateBranchesResume(i, resp, rnd)
              => IF resp.ok /\ resp.shape # "malformed"
                 THEN /\ branches' = StoryBranchesResult(resp, rnd).branches
                      /\ UNCHANGED <<currentScenario, scenarioText, branchQuestion,
                                     branchHistory, branchError>>
                 ELSE /\ branchError' # "null"
                      /\ UNCHANGED <<currentScenario, scenarioText, branchQuestion,
                                     branches, branchHistory>>]_vars

\* A failed generation has left its error next to the candidates of an
\* earlier successful one.
C20_FailureAfterSuccess ==
    /\ branchError # "null" /\ Len(branches) > 0
    /\ net = <<>> /\ ~branchIsGenerating /\ issued = 2

\* C21: on every selection event handled by the selection tracker, if the
\* selection is collapsed or its text is whitespace-only the anchor (selected
\* text and range) is cleared and the tooltip is hidden; otherwise the anchor
\* is captured and the tooltip is shown.
C21_SelectionEventSetsAnchor ==
    [][\A s \in 0..Len(surface), e \in 0..Len(surface), reuse \in BOOLEAN :
           handleTextSelection(s, e, reuse)
           => LET selected == TextContent(SubSeq(surface, s + 1, e))
              IN IF s = e \/ Falsy(Trim(selected))
                 THEN /\ selectedText' = <<>>
                      /\ range' = NullRange
                      /\ showTooltip' = FALSE
                 ELSE /\ selectedText' = selected
                      /\ range' = EditorRange(s, e)
                      /\ showTooltip' = TRUE]_vars

C23_AddCustomAppendsOne ==
    [][\A now \in CustomIds :
           handleCustomBranch(now)
           => IF ~Falsy(Trim(customBranchTitle)) /\ ~Falsy(Trim(customBranchContent))
              THEN /\ Len(branches') = Len(branches) + 1
                   /\ SubSeq(branches', 1, Len(branches)) = branches
                   /\ branches'[Len(branches')].id = now
                   /\ branches'[Len(branches')].title = customBranchTitle
                   /\ branches'[Len(branches')].content = customBranchContent
                   /\ UNCHANGED <<currentScenario, scenarioText, branchQuestion,
                                  branchHistory>>
              ELSE UNCHANGED branchVars]_vars

\* A custom branch stands behind the generated one, and a whitespace-only
\* title is in the form with a content.
C23_CustomBehindGenerated ==
    /\ Len(branches) = 2 /\ branches[1].id = "b1" /\ branches[2].id \in CustomIds
    /\ customBranchTitle = <<" ">> /\ customBranchContent # <<>>

\* C24: every Story Context mutation is a pure merge on one field: a form
\* edit or an add-to-context action changes only the targeted field and
\* leaves the other six unchanged, and the mapping always has exactly the
\* seven fixed keys.
C24_ContextMergesOneField ==
    [][/\ DOMAIN storyContext = StoryContextFields
       /\ DOMAIN storyContext' = StoryContextFields
       /\ Cardinality(StoryContextFields) = 7
       /\ storyContext' # storyContext
          => /\ \A field \in StoryContextFields, value \in ContextValues :
                    setStoryContext(field, value)
                    => \A f \in StoryContextFields \ {field} :
                           storyContext'[f] = storyContext[f]
             /\ \A elementType \in DOMAIN contextFieldMap :
                    addToContext(elementType)
                    => \A f \in StoryContextFields \ {contextFieldMap[elementType]} :
                           storyContext'[f] = storyContext[f]
             /\ \A index \in 1..Len(parsedCharacters) :
                    addCharacterToContext(index)
                    => \A f \in StoryContextFields \ {"characters"} :
                           storyContext'[f] = storyContext[f]
             /\ \/ \E elementType \in DOMAIN contextFieldMap : addToContext(elementType)
                \/ \E index \in 1..Len(parsedCharacters) : addCharacterToContext(index)
                \/ \E field \in StoryContextFields, value \in ContextValues :
                       setStoryContext(field, value)]_vars

\* A generated text was added behind the text typed into the characters
\* field, next to a genre typed into the form.
C24_AddedBehindTyped ==
    /\ storyContext.genre = <<"a">>
    /\ storyContext.characters = <<"a", "\n", "\n", "g">>

\* C25: in the path view, after any sequence of generate, addCustom, select
\* and back, the title shown for history entry i is the title of the branch
\* the user selected at step i, and the title shown for the current node is
\* the title of the branch under exploration: a select adds the title of the
\* selected branch to the path and shows it for the current node, a back
\* removes the last title, and nothing else changes the titles.
C25_PathShowsSelectedTitles ==
    [][LET titles == [i \in 1..Len(branchHistory) |->
                         getBranchTitle(branchHistory[i], i)]
       IN /\ \A k \in 1..Len(branches) :
                 (handleSelectBranch(k) /\ branches[k].id # "")
                 => /\ titles' = Append(titles, branches[k].title)
                    /\ getCurrentBranchTitle' = branches[k].title
          /\ handleGoBack
                 => /\ titles' = SubSeq(titles, 1, Len(titles) - 1)
                    /\ getCurrentBranchTitle' =
                           (IF Len(titles) > 1 THEN titles[Len(titles) - 1] ELSE <<>>)
          /\ (branchHistory' = branchHistory /\ currentScenario' = currentScenario)
                 => (titles' = titles /\ getCurrentBranchTitle' = getCurrentBranchTitle)]_vars

C27_ResponseInstalledAtItsScenario ==
    [][\A i \in 1..Len(net) :
           (/\ net[i].kind = "branches"
            /\ net' = RemoveAt(net, i)
            /\ net[i].cap.scenario # currentScenario)
           => branches' = branches]_vars

\* C28: an append splice (write, describe or brainstorm result) never removes
\* content that is on the editable surface when the response arrives: after
\* the splice a surface that held non-blank text begins with everything it
\* held just before, also when the document was empty at the moment the
\* action was triggered.
C28_AppendKeepsSurface ==
    [][\A i \in 1..Len(net) :
           (/\ net[i].kind \in {"write", "describe", "brainstorm"}
            /\ net' = MapCapturedRanges(RemoveAt(net, i), AfterReplaceAll)
            /\ ~Falsy(Trim(InnerText(surface)))
            /\ surface' # surface)
           => /\ Len(surface') >= Len(surface)
              /\ SubSeq(surface', 1, Len(surface)) = surface]_vars

\* C29: in the left sidebar the generated content (and the parsed character
\* list) shown under the active story-bible item was produced by a request
\* issued for that item: when another item has become the active one while
\* the request was in flight, the late response is not shown under it.
C29_ResultShownUnderItsItem ==
    [][\A i \in 1..Len(net) :
           (/\ net[i].kind = "context"
            /\ net' = RemoveAt(net, i)
            /\ activeItem \in StoryBibleItems
            /\ net[i].cap.elementType # activeItem)
           => /\ Truthy(generatedContent') => generatedContent' = generatedContent
              /\ parsedCharacters' = parsedCharacters]_vars

\* C30: whenever at least one editor generation request (write, describe or
\* rewrite) is still in flight, App's shared isLoading flag is true: the
\* completion of one action never clears the flag while another action's
\* request is outstanding.
C30_LoadingWhileOutstanding ==
    Outstanding({"write", "describe", "rewrite"}) # {} => isLoading

============================================================================
